---- MODULE Spec2Model ----
(***************************************************************************)
(* Model of the v402 Rust client (clients/rust/src/client.rs): the request *)
(* pipeline (admission, cache probe, middleware traversal, 402 handling,   *)
(* paid retry, statistics) and the lifecycle (close, drain, subsystems).   *)
(*                                                                         *)
(* A step of an invocation runs from one await point (or one access to the *)
(* closed flag or to the active-request counter made before the first      *)
(* await) to the next, so that the interleavings of the multi-threaded     *)
(* executor are explored.  The code that follows the last await of         *)
(* request() (update_stats under the statistics lock, then the drop of the *)
(* RequestGuard) belongs to the step that completes that await.  The       *)
(* collaborators whose source is not part of client.rs (HTTP transport,    *)
(* middleware stack, cache manager, payment manager) answer                *)
(* nondeterministically.                                                   *)
(*                                                                         *)
(* The invocations of get/post are anonymous: the state holds the bag of   *)
(* their local states.                                                     *)
(***************************************************************************)
EXTENDS Integers, Naturals, FiniteSets, Sequences, Bags, TLC

\* ---------------------------------------------------------------- bounds
\* Number of get/post invocations.
NumRequests == 2
\* Number of close() invocations.
NumClosers == 2
\* config.max_amount_per_request, in base units.
MaxAmountPerRequest == 1
\* Largest max_concurrent passed to batch_get.
MaxConcurrent == 2
\* config.global_spend_cap of a client configured with a global cap, in base
\* units.
GlobalSpendCap == 1

\* AtomicU64 wraps on underflow; the width is reduced to fit TLC integers.
CounterModulus == 1073741824

\* `as u32` keeps the low 32 bits of total_requests; the width is reduced to
\* 3 bits so that the counter outgrows it within MaxSamples requests.
U32Modulus == 8
\* Requests counted by update_stats, and their durations in nanoseconds.
MaxSamples == 9
MaxDuration == 3
\* Operations called on a service of the example application.
MaxOps == 3

Closers == 1..NumClosers
\* The public operations an invocation can be a call of.
RequestApis == {"get", "post"}
AccessorApis == {"get_payment_history", "get_payment_statistics"}
\* Status codes the server (or a middleware) may answer with.
Statuses == {200, 402, 500}
\* Values of max_amount_required a challenge may carry.
Amounts == 1..(MaxAmountPerRequest + 1)
\* The middlewares an application may register.
Middlewares == {"m1", "m2"}
Subsystems == {"chain_manager", "payment_manager", "cache_manager", "metrics"}

VARIABLES
    closed,           \* ClientState.closed
    active_requests,  \* ClientState.active_requests
    stats,            \* ClientState.stats
    auto_pay,         \* Config.auto_pay
    averaging,        \* ClientStats.average_duration and the durations counted
    services,         \* caches of the example's ProductService, AccessService
    middleware_stack, \* the middlewares registered, in registration order
    global_spend_cap, \* Config.global_spend_cap (None: no global cap)
    reserved,         \* budget reserved by the payment manager in the window
    invocations,      \* bag of the local states of the request() invocations
    cpc,              \* position of each close() invocation
    first,            \* whether the close() invocation won the swap
    elapsed,          \* start.elapsed() >= shutdown_timeout in the drain loop
    closeCalls,       \* close() invocations received by each subsystem
    closeErrs,        \* whether a subsystem's close() returned Err (logged)
    cresult,          \* what each close() invocation returned
    batch             \* the batch_get invocation and its semaphore

budgetVars == <<global_spend_cap, reserved>>
clientVars ==
    <<closed, active_requests, stats, auto_pay, averaging, services, middleware_stack, budgetVars>>
closeVars == <<cpc, first, elapsed, closeCalls, closeErrs, cresult>>
vars == <<clientVars, invocations, closeVars, batch>>

\* ------------------------------------------------------------ data types
\* Option<T> is a sequence of length at most one.
None == <<>>
Some(x) == <<x>>

\* PaymentResponse as produced by the middleware stack / transport.
Response(status) ==
    [status |-> status, payment_made |-> FALSE, payment_amount |-> None,
     network |-> None, transaction_hash |-> None, payer |-> None]

\* Result<PaymentResponse>.
Pending == [kind |-> "Pending", response |-> Response(0)]
Ok(resp) == [kind |-> "Ok", response |-> resp]
Err(e) == [kind |-> e, response |-> Response(0)]

\* Body of a 402 response: either it does not parse as payment requirements,
\* or it carries max_amount_required and network.
NoChallenge == [parsable |-> FALSE, max_amount_required |-> 0, network |-> ""]
Challenges ==
    {NoChallenge} \cup
    {[parsable |-> TRUE, max_amount_required |-> a, network |-> "base"] :
        a \in Amounts}

\* Value of the X-PAYMENT-RESPONSE header of a paid response: it does not
\* decode, or it is the receipt of a settlement that succeeded (with the
\* transaction and the payer), or of one that did not.
Undecodable ==
    [decodable |-> FALSE, success |-> FALSE, transaction |-> None, payer |-> None]
SettlementHeaders ==
    {Undecodable,
     [decodable |-> TRUE, success |-> TRUE, transaction |-> Some("0xdead"),
      payer |-> Some("0xpayer")],
     [decodable |-> TRUE, success |-> FALSE, transaction |-> None,
      payer |-> None]}

\* CacheEntry: the response stored and the auth_scope it was stored under
\* (that of a request without authorization headers, or that of a request
\* carrying X-PAYMENT or Authorization).
AuthScopes == {"anonymous", "authorized"}
CacheEntries == [auth_scope : AuthScopes, response : {Response(200)}]

ClientStats ==
    [total_requests |-> 0, successful_requests |-> 0, failed_requests |-> 0,
     payments_made |-> 0, total_amount_paid |-> 0]

\* The chains the chain manager reports on.
Chains == {"base", "ethereum"}

\* Result<HealthStatus>: the components reported, the issues listed and the
\* gauges read (the timestamp is left out).
HealthStatus(kind, healthy, http, chains, cache, issues, metrics) ==
    [kind |-> kind, healthy |-> healthy,
     components |-> [http_client |-> http, chains |-> chains, cache |-> cache],
     issues |-> issues, metrics |-> metrics]

NoMetrics ==
    [total_requests |-> 0, successful_requests |-> 0, failed_requests |-> 0,
     active_requests |-> 0]

NoHealth ==
    HealthStatus("None", FALSE, FALSE, [c \in Chains |-> FALSE], FALSE, {},
                 NoMetrics)

\* The example application (examples/rust/basic): products, and the
\* answers of the API to create_product, get_product and update_product.
ProductIds == {"p1", "p2"}
Versions == {"v1", "v2"}
Products == [id : ProductIds, content : Versions]
NoProduct == [id |-> "", content |-> ""]
ProductAnswers ==
    {[ok |-> FALSE, product |-> NoProduct]} \cup
    {[ok |-> TRUE, product |-> p] : p \in Products}

\* AccessRequest, AccessResponse and the answers of the API to check_access.
Users == {"0xa", "0xb"}
Timestamps == {1, 2}
Signatures == {"sig1", "sig2"}
AccessRequests ==
    [product_id : {"p1"}, user_address : Users, timestamp : Timestamps,
     signature : Signatures]
AccessResponses == [has_access : BOOLEAN, expires_at : {None, Some(1)}]
NoAccessResponse == [has_access |-> FALSE, expires_at |-> None]
AccessAnswers ==
    {[ok |-> FALSE, response |-> NoAccessResponse]} \cup
    {[ok |-> TRUE, response |-> r] : r \in AccessResponses}
AccessKeys == {"p1"} \X Users
cache_key(access_request) ==
    <<access_request.product_id, access_request.user_address>>

\* ProductService::new and AccessService::new: empty caches.  The logs list
\* the calls made on each service: the operation, its argument, whether the
\* API was called, whether the call returned Ok, and what it returned.
NewServices ==
    [cache |-> [id \in ProductIds |-> None], product_log |-> <<>>,
     access_cache |-> [k \in AccessKeys |-> None], access_log |-> <<>>]

\* ClientStats::default as far as the average is concerned.
NoSamples ==
    [total_requests |-> 0, average_duration |-> 0, panics |-> 0,
     least |-> 0, greatest |-> 0, sum |-> 0]

\* Local state of an invocation that has not started.
\*   pc            position in the operation
\*   api           the public operation called
\*   task          whether it is the get of a task spawned by batch_get
\*   url           position of its URL in the urls of batch_get (0: no task)
\*   challenge     response.body of the 402 the invocation received
\*   cacheProbes   cache_manager.get calls it made
\*   chainEntries  middleware_stack.execute calls it made
\*   pmCalls       payment manager calls it made
\*   signed        payment headers signed for it
\*   paidStatus    paid_response.status (0: none)
\*   settlement_header  X-PAYMENT-RESPONSE of the paid response, if any
\*   hit           auth_scope of the cache entry it was answered from
\*   cacheHits     metrics.increment_cache_hits calls it made
\*   cacheInserts  responses it stored in the cache
\*   records       PaymentRecords it appended to the payment history
\*   flag          what is_closed returned, or Config.auto_pay of config()
\*   health        what health_check returned
\*   result        what it returned
Idle ==
    [pc |-> "idle", api |-> "get", task |-> FALSE, url |-> 0,
     challenge |-> NoChallenge,
     cacheProbes |-> 0, chainEntries |-> 0, shortCircuited |-> FALSE,
     transportCalls |-> 0, trace |-> <<>>, pmCalls |-> 0, signed |-> 0,
     paidStatus |-> 0, settlement_header |-> None, hit |-> None, cacheHits |-> 0,
     cacheInserts |-> 0, records |-> 0,
     flag |-> FALSE, health |-> NoHealth,
     result |-> Pending]

\* The batch_get invocation: its position, what it returned (the kind and,
\* if Ok, the vector of results), its max_concurrent argument and the
\* permits available in its semaphore.
NoBatch ==
    [pc |-> "idle", result |-> "Pending", results |-> <<>>,
     max_concurrent |-> 0, permits |-> 0]

\* ----------------------------------------------------------------- Init
\* Client::new: the state of a client just constructed from its
\* configuration, before any call.
New ==
    /\ closed = FALSE
    /\ active_requests = 0
    /\ stats = ClientStats
    /\ reserved = 0
    /\ middleware_stack = <<>>
    /\ averaging = NoSamples
    /\ services = NewServices
    /\ invocations = [i \in {Idle} |-> NumRequests]
    /\ cpc = [c \in Closers |-> "idle"]
    /\ first = [c \in Closers |-> FALSE]
    /\ elapsed = FALSE
    /\ closeCalls = [s \in Subsystems |-> 0]
    /\ closeErrs = FALSE
    /\ cresult = [c \in Closers |-> "Pending"]
    /\ batch = NoBatch

\* A client with or without auto_pay and without a global cap.
Init == New /\ auto_pay \in BOOLEAN /\ global_spend_cap = None

\* The local states present, and the step of one invocation from i to j.
Invs == BagToSet(invocations)
Step(i, j) == invocations' = (invocations (-) SetToBag({i})) (+) SetToBag({j})

\* ------------------------------------------------------------- request()
\* Client::is_closed.
is_closed == closed

\* Mutant: the closed check never refuses.
ensure_not_closed_never == "Ok"

\* Client::ensure_not_closed.
ensure_not_closed == IF is_closed THEN "ClientClosed" ELSE "Ok"

\* AtomicU64::fetch_add(1) / fetch_sub(1): the new value.
fetch_add(x) == (x + 1) % CounterModulus
fetch_sub(x) == (x - 1) % CounterModulus

\* RequestGuard::drop.
RequestGuardDrop == active_requests' = fetch_sub(active_requests)

\* Mutant: the call is added to total_requests only.
update_stats_total_only(st, res) == [st EXCEPT !.total_requests = @ + 1]

\* Client::update_stats lines 765-786.
update_stats(st, res) ==
    LET counted == [st EXCEPT !.total_requests = @ + 1] IN
    IF res.kind = "Ok"
      THEN LET ok == [counted EXCEPT !.successful_requests = @ + 1] IN
           IF res.response.payment_made
             THEN LET paid == [ok EXCEPT !.payments_made = @ + 1] IN
                  IF res.response.payment_amount # None
                    THEN [paid EXCEPT !.total_amount_paid =
                                          @ + res.response.payment_amount[1]]
                    ELSE paid
             ELSE ok
      ELSE [counted EXCEPT !.failed_requests = @ + 1]

\* batch_get() lines 519-529: when the get of a task returns, the task ends
\* and its semaphore permit is dropped.
PermitDrop(i) ==
    IF i.task THEN batch' = [batch EXCEPT !.permits = @ + 1]
              ELSE UNCHANGED batch

\* Mutant: the early returns of the cache probe bypass the decrement.
EarlyReturnLeak(i, j, res) ==
    /\ Step(i, [j EXCEPT !.pc = "done", !.result = res])
    /\ PermitDrop(i)
    /\ UNCHANGED <<stats, active_requests>>

\* request() lines 342-346: `?` on the probe error and the return of the
\* cached response leave request() at once; the guard is dropped.
EarlyReturn(i, j, res) ==
    /\ Step(i, [j EXCEPT !.pc = "done", !.result = res])
    /\ RequestGuardDrop
    /\ PermitDrop(i)
    /\ UNCHANGED stats

\* Mutant: every result of a GET is stored in the cache before it is
\* returned.
CompleteInserting(i, j, res) ==
    /\ Step(i, [j EXCEPT !.pc = "done", !.result = res,
                         !.cacheInserts = IF j.api = "get" THEN @ + 1 ELSE @])
    /\ stats' = update_stats(stats, res)
    /\ RequestGuardDrop
    /\ PermitDrop(i)

\* request() lines 350-363: execute_request has produced `res`; the
\* statistics are updated, the result is returned and the guard is dropped.
Complete(i, j, res) ==
    /\ Step(i, [j EXCEPT !.pc = "done", !.result = res])
    /\ stats' = update_stats(stats, res)
    /\ RequestGuardDrop
    /\ PermitDrop(i)

\* The invocation stays inside request(), at await point `at`.
Continue(i, j, at) ==
    /\ Step(i, [j EXCEPT !.pc = at])
    /\ UNCHANGED <<stats, active_requests, batch>>

\* get() line 283 / post() line 315 and request() line 329: the call and
\* its closed check.  A task of batch_get calls get.
RequestEnsureNotClosed(i) ==
    /\ \/ i.pc = "idle" /\ ~i.task
       \/ i.pc = "permit"
    /\ \E a \in (IF i.task THEN {"get"} ELSE RequestApis) :
         LET j == [i EXCEPT !.api = a] IN
         IF ensure_not_closed = "ClientClosed"
           THEN /\ Step(i, [j EXCEPT !.pc = "done",
                                     !.result = Err("ClientClosed")])
                /\ PermitDrop(i)
           ELSE /\ Step(i, [j EXCEPT !.pc = "admitted"])
                /\ UNCHANGED batch
    /\ UNCHANGED <<clientVars, closeVars>>

\* Mutant: the cache is probed whatever the method.
RequestFetchAddProbing(i) ==
    /\ i.pc = "admitted"
    /\ active_requests' = fetch_add(active_requests)
    /\ Step(i, [i EXCEPT !.pc = "cache"])
    /\ UNCHANGED <<closed, stats, auto_pay, averaging, services, middleware_stack,
                   budgetVars, closeVars, batch>>

\* request() lines 335-341: fetch_add and the creation of the guard (no
\* suspension point in between), then the choice of the next stage.
RequestFetchAdd(i) ==
    /\ i.pc = "admitted"
    /\ active_requests' = fetch_add(active_requests)
    /\ Step(i, [i EXCEPT !.pc = IF i.api = "get" THEN "cache" ELSE "execute"])
    /\ UNCHANGED <<closed, stats, auto_pay, averaging, services, middleware_stack,
                   budgetVars, closeVars, batch>>

\* request() lines 340-342: the probe precedes the construction of the
\* Request (line 377) and get(url) takes no headers: the call has the
\* auth_scope of a request without X-PAYMENT and Authorization.
auth_scope(i) == "anonymous"

\* request() line 342: the probe hands the cache manager the URL and nothing
\* else, so every unexpired entry stored for the URL can be the answer,
\* whatever the auth_scope it was stored under.
cache_manager_get == CacheEntries

\* request() lines 341-347: the cache probe of a GET.
CacheGet(i) ==
    /\ i.pc = "cache"
    /\ LET j == [i EXCEPT !.cacheProbes = @ + 1] IN
         \/ EarlyReturn(i, j, Err("Cache"))
         \/ \E cached \in cache_manager_get :
              EarlyReturn(i, [j EXCEPT !.hit = Some(cached.auth_scope),
                                       !.cacheHits = @ + 1],
                          Ok(cached.response))
         \/ Continue(i, j, "execute")
    /\ UNCHANGED <<closed, auto_pay, averaging, services, middleware_stack, budgetVars,
                   closeVars>>

\* MiddlewareStack::execute: the ways a traversal of the registered
\* middlewares can go.  Each middleware either invokes its continuation or
\* answers by itself (short-circuit); the transport is the terminal handler,
\* invoked once if no middleware short-circuits.
\* The trace of a traversal lists the handlers in the order in which the
\* request reaches them and the response leaves them.
Requests(k) ==
    [n \in 1..k |-> [handler |-> middleware_stack[n], side |-> "request"]]
Responses(k) ==
    [n \in 1..k |-> [handler |-> middleware_stack[k + 1 - n],
                     side |-> "response"]]
Terminal == <<[handler |-> "transport", side |-> "terminal"]>>

\* Mutant: the request side runs from the middleware registered last.
middleware_stack_execute_reversed ==
    LET n == Len(middleware_stack) IN
    {[short_circuited |-> FALSE, transport |-> 1,
      trace |-> Responses(n) \o Terminal \o Requests(n)]} \cup
    {[short_circuited |-> TRUE, transport |-> 0,
      trace |-> Responses(k) \o Requests(k)] : k \in 1..n}

middleware_stack_execute ==
    LET n == Len(middleware_stack) IN
    {[short_circuited |-> FALSE, transport |-> 1,
      trace |-> Requests(n) \o Terminal \o Responses(n)]} \cup
    {[short_circuited |-> TRUE, transport |-> 0,
      trace |-> Requests(k) \o Responses(k)] : k \in 1..n}

\* execute_request() lines 377-392: build the request, traverse the
\* middleware stack, branch on 402.
ExecuteRequest(i) ==
    /\ i.pc = "execute"
    /\ \/ Complete(i, i, Err("InvalidUrl"))
       \/ \E t \in middleware_stack_execute :
            LET j == [i EXCEPT !.chainEntries = @ + 1,
                               !.shortCircuited = t.short_circuited,
                               !.transportCalls = @ + t.transport,
                               !.trace = t.trace]
            IN
            \/ Complete(i, j, Err("Network"))
            \/ \E s \in Statuses :
                 IF s = 402 /\ auto_pay
                   THEN \E ch \in Challenges :
                          Continue(i, [j EXCEPT !.challenge = ch], "parse")
                   ELSE Complete(i, j, Ok(Response(s)))
    /\ UNCHANGED <<closed, auto_pay, averaging, services, middleware_stack, budgetVars,
                   closeVars>>

\* PaymentManager::parse_payment_requirements.
parse_payment_requirements(body) == IF body.parsable THEN "Ok" ELSE "Parse"

\* Mutant: the global cap is not checked.
create_payment_header_per_request_only(req) ==
    IF req.max_amount_required > MaxAmountPerRequest
      THEN {"BudgetExceeded"}
      ELSE {"Ok", "Signing"}

\* PaymentManager::create_payment_header: the outcomes it can have for the
\* requirements.  The per-request cap and, if one is configured, the global
\* cap are checked before anything is signed; the signing provider may fail.
create_payment_header(req) ==
    IF req.max_amount_required > MaxAmountPerRequest
      THEN {"BudgetExceeded"}
      ELSE IF /\ global_spend_cap # None
              /\ reserved + req.max_amount_required > global_spend_cap[1]
        THEN {"BudgetExceeded"}
        ELSE {"Ok", "Signing"}

\* PaymentManager::create_payment_header: the amount of a signed assertion
\* is reserved in the same critical section as the check.
reserve(req) == reserved + req.max_amount_required

\* Mutant: the error of parse_payment_requirements is not propagated.
ParsePaymentRequirementsUnchecked(i) ==
    /\ i.pc = "parse"
    /\ Continue(i, [i EXCEPT !.pmCalls = @ + 1], "sign")
    /\ UNCHANGED <<closed, auto_pay, averaging, services, middleware_stack, budgetVars,
                   closeVars>>

\* handle_payment_required() lines 402-405.
ParsePaymentRequirements(i) ==
    /\ i.pc = "parse"
    /\ LET j == [i EXCEPT !.pmCalls = @ + 1] IN
         IF parse_payment_requirements(i.challenge) = "Ok"
           THEN Continue(i, j, "sign")
           ELSE Complete(i, j, Err("Parse"))
    /\ UNCHANGED <<closed, auto_pay, averaging, services, middleware_stack, budgetVars,
                   closeVars>>

\* Mutant: the error of create_payment_header is not propagated.
CreatePaymentHeaderUnchecked(i) ==
    /\ i.pc = "sign"
    /\ Continue(i, [i EXCEPT !.pmCalls = @ + 1, !.signed = @ + 1], "retry")
    /\ reserved' = reserve(i.challenge)
    /\ UNCHANGED <<closed, auto_pay, averaging, services, middleware_stack,
                   global_spend_cap, closeVars>>

\* Mutant: a failed signing keeps the amount it had reserved.
CreatePaymentHeaderKeepingReservation(i) ==
    /\ i.pc = "sign"
    /\ LET j == [i EXCEPT !.pmCalls = @ + 1] IN
         \E o \in create_payment_header(i.challenge) :
           /\ IF o = "Ok"
                THEN Continue(i, [j EXCEPT !.signed = @ + 1], "retry")
                ELSE Complete(i, j, Err(o))
           /\ reserved' = IF o = "BudgetExceeded" THEN reserved
                                                  ELSE reserve(i.challenge)
    /\ UNCHANGED <<closed, auto_pay, averaging, services, middleware_stack,
                   global_spend_cap, closeVars>>

\* handle_payment_required() lines 407-413.
CreatePaymentHeader(i) ==
    /\ i.pc = "sign"
    /\ LET j == [i EXCEPT !.pmCalls = @ + 1] IN
         \E o \in create_payment_header(i.challenge) :
           IF o = "Ok"
             THEN /\ Continue(i, [j EXCEPT !.signed = @ + 1], "retry")
                  /\ reserved' = reserve(i.challenge)
             ELSE /\ Complete(i, j, Err(o))
                  /\ UNCHANGED reserved
    /\ UNCHANGED <<closed, auto_pay, averaging, services, middleware_stack,
                   global_spend_cap, closeVars>>

\* Mutant: the network of the requirements is not copied.
MarkPaidWithoutNetwork(resp, req) ==
    [resp EXCEPT !.payment_made = TRUE,
                 !.payment_amount = Some(req.max_amount_required)]

\* handle_payment_required() lines 427-430: the paid response is marked.
MarkPaid(resp, req) ==
    [resp EXCEPT !.payment_made = TRUE,
                 !.payment_amount = Some(req.max_amount_required),
                 !.network = Some(req.network)]

\* handle_payment_required() lines 422-444, the result for a paid response
\* of status s.
PaidResult(s, req) == Ok(MarkPaid(Response(s), req))

\* What paid_response.headers.get("X-PAYMENT-RESPONSE") can be.
PaymentResponseHeader == {None} \cup {Some(h) : h \in SettlementHeaders}

\* Mutant: a 402 answer to the paid retry is handled as a new challenge.
ExecutePaidRequestAgain(i) ==
    /\ i.pc = "retry"
    /\ \E t \in middleware_stack_execute :
       LET j == [i EXCEPT !.chainEntries = @ + 1,
                          !.transportCalls = @ + t.transport,
                          !.trace = t.trace] IN
         \/ Complete(i, j, Err("Network"))
         \/ \E s \in Statuses, h \in PaymentResponseHeader :
              LET k == [j EXCEPT !.paidStatus = s, !.settlement_header = h] IN
              IF s = 402
                THEN \E ch \in Challenges :
                       Continue(i, [k EXCEPT !.challenge = ch,
                                             !.settlement_header = None], "parse")
                ELSE IF h # None
                       THEN Continue(i, k, "settle")
                       ELSE Complete(i, k, PaidResult(s, i.challenge))
    /\ UNCHANGED <<closed, auto_pay, averaging, services, middleware_stack, budgetVars,
                   closeVars>>

\* handle_payment_required() lines 422-433 and 444: the paid retry.  `h`
\* is paid_response.headers.get("X-PAYMENT-RESPONSE").
ExecutePaidRequest(i) ==
    /\ i.pc = "retry"
    /\ \E t \in middleware_stack_execute :
       LET j == [i EXCEPT !.chainEntries = @ + 1,
                          !.transportCalls = @ + t.transport,
                          !.trace = t.trace] IN
         \/ Complete(i, j, Err("Network"))
         \/ \E s \in Statuses, h \in PaymentResponseHeader :
              LET k == [j EXCEPT !.paidStatus = s, !.settlement_header = h] IN
              IF h # None
                THEN Continue(i, k, "settle")
                ELSE Complete(i, k, PaidResult(s, i.challenge))
    /\ UNCHANGED <<closed, auto_pay, averaging, services, middleware_stack, budgetVars,
                   closeVars>>

\* PaymentManager::process_settlement: the inverse of the encoding of the
\* header, or a decode error.
process_settlement(header) ==
    IF header.decodable
      THEN [kind |-> "Ok",
            settlement |-> [transaction_hash |-> header.transaction,
                            payer |-> header.payer]]
      ELSE [kind |-> "Parse",
            settlement |-> [transaction_hash |-> None, payer |-> None]]

\* Mutant: the decode error is propagated with `?`.
ProcessSettlementPropagating(i) ==
    /\ i.pc = "settle"
    /\ LET decoded == process_settlement(i.settlement_header[1])
           paid == MarkPaid(Response(i.paidStatus), i.challenge)
       IN Complete(i, [i EXCEPT !.pmCalls = @ + 1],
                   IF decoded.kind = "Ok"
                     THEN Ok([paid EXCEPT
                                !.transaction_hash =
                                    decoded.settlement.transaction_hash,
                                !.payer = decoded.settlement.payer])
                     ELSE Err(decoded.kind))
    /\ UNCHANGED <<closed, auto_pay, averaging, services, middleware_stack, budgetVars,
                   closeVars>>

\* Mutant: the decoded settlement is not copied into the response.
ProcessSettlementIgnored(i) ==
    /\ i.pc = "settle"
    /\ Complete(i, [i EXCEPT !.pmCalls = @ + 1],
                PaidResult(i.paidStatus, i.challenge))
    /\ UNCHANGED <<closed, auto_pay, averaging, services, middleware_stack, budgetVars,
                   closeVars>>

\* handle_payment_required() lines 433-444: the settlement header is decoded
\* and the transaction hash and the payer are copied into the response; a
\* decode failure is ignored.
ProcessSettlement(i) ==
    /\ i.pc = "settle"
    /\ LET decoded == process_settlement(i.settlement_header[1])
           paid == MarkPaid(Response(i.paidStatus), i.challenge)
       IN Complete(i, [i EXCEPT !.pmCalls = @ + 1],
                   IF decoded.kind = "Ok"
                     THEN Ok([paid EXCEPT
                                !.transaction_hash =
                                    decoded.settlement.transaction_hash,
                                !.payer = decoded.settlement.payer])
                     ELSE Ok(paid))
    /\ UNCHANGED <<closed, auto_pay, averaging, services, middleware_stack, budgetVars,
                   closeVars>>

\* The await points of request(): the future can be dropped at any of them,
\* which drops its locals and runs RequestGuard::drop.  The caller of a
\* direct call drops it; batch_get() lines 526-528 drop the get of a task
\* when the timeout expires, and the task returns Error::Timeout.
SuspensionPoints == {"cache", "execute", "parse", "sign", "retry", "settle"}

\* Mutant: the counter is decremented at the end of request() instead of in
\* a guard's drop, so a dropped future leaves it as it was.
CancelLeak(i) ==
    /\ i.pc \in SuspensionPoints
    /\ PermitDrop(i)
    /\ Step(i, [i EXCEPT !.pc = "done",
                         !.result = Err(IF i.task THEN "Timeout" ELSE "Cancelled"),
                         !.challenge = NoChallenge, !.paidStatus = 0,
                         !.settlement_header = None])
    /\ UNCHANGED <<closed, active_requests, stats, auto_pay, averaging, services,
                   middleware_stack, budgetVars,
                   closeVars>>

Cancel(i) ==
    /\ i.pc \in SuspensionPoints
    /\ RequestGuardDrop
    /\ PermitDrop(i)
    /\ Step(i, [i EXCEPT !.pc = "done",
                         !.result = Err(IF i.task THEN "Timeout" ELSE "Cancelled"),
                         !.challenge = NoChallenge, !.paidStatus = 0,
                         !.settlement_header = None])
    /\ UNCHANGED <<closed, stats, auto_pay, averaging, services, middleware_stack,
                   budgetVars, closeVars>>

\* ------------------------------------ get_payment_history / _statistics
\* get_payment_history() line 567, get_payment_statistics() line 588: the
\* call and its closed check.
AccessorEnsureNotClosed(i) ==
    /\ i.pc = "idle" /\ ~i.task
    /\ \E a \in AccessorApis :
         LET j == [i EXCEPT !.api = a] IN
         IF ensure_not_closed = "ClientClosed"
           THEN Step(i, [j EXCEPT !.pc = "done", !.result = Err("ClientClosed")])
           ELSE Step(i, [j EXCEPT !.pc = "accessor"])
    /\ UNCHANGED <<clientVars, closeVars, batch>>

\* get_payment_history() line 568, get_payment_statistics() line 589: the
\* payment manager answers.
AccessorReturn(i) ==
    /\ i.pc = "accessor"
    /\ \E res \in {Ok(Response(0)), Err("Payment")} :
         Step(i, [i EXCEPT !.pc = "done", !.pmCalls = @ + 1, !.result = res])
    /\ UNCHANGED <<clientVars, closeVars, batch>>

\* ------------------------------------------- is_closed / config / health
ReadOnlyApis == {"is_closed", "config", "health_check"}

\* is_closed() lines 745-747, called by an application thread.
IsClosed(i) ==
    /\ i.pc = "idle" /\ ~i.task
    /\ Step(i, [i EXCEPT !.api = "is_closed", !.pc = "done",
                         !.flag = is_closed, !.result = Ok(Response(0))])
    /\ UNCHANGED <<clientVars, closeVars, batch>>

\* config() lines 750-752.
GetConfig(i) ==
    /\ i.pc = "idle" /\ ~i.task
    /\ Step(i, [i EXCEPT !.api = "config", !.pc = "done",
                         !.flag = auto_pay, !.result = Ok(Response(0))])
    /\ UNCHANGED <<clientVars, closeVars, batch>>

\* The entries health_check() pushes to issues.
HttpIssue == <<"HTTP client", "", " unhealthy">>
ChainIssue(c) == <<"Chain ", c, " unhealthy">>

\* ChainManager::health_check: an error, or the health of each chain.
ChainHealth ==
    {[kind |-> "Chain", health |-> [c \in Chains |-> FALSE]]} \cup
    {[kind |-> "Ok", health |-> f] : f \in [Chains -> BOOLEAN]}

\* health_check() lines 611-651 for the answers http, chain_health and cache
\* of the three probes.
health_check(http, chain_health, cache) ==
    IF chain_health.kind # "Ok"
      THEN [NoHealth EXCEPT !.kind = chain_health.kind]
      ELSE HealthStatus(
             "Ok",
             http /\ \A c \in Chains : chain_health.health[c],
             http, chain_health.health, cache,
             {HttpIssue : x \in {y \in {http} : ~y}}
                 \cup {ChainIssue(c) :
                         c \in {d \in Chains : ~chain_health.health[d]}},
             [total_requests |-> stats.total_requests,
              successful_requests |-> stats.successful_requests,
              failed_requests |-> stats.failed_requests,
              active_requests |-> active_requests])

\* Mutant: health_check counts itself as a request.
HealthCheckCounted(i) ==
    /\ i.pc = "idle" /\ ~i.task
    /\ \E http \in BOOLEAN, cache \in BOOLEAN, chain_health \in ChainHealth :
         LET status == health_check(http, chain_health, cache) IN
         Step(i, [i EXCEPT !.api = "health_check", !.pc = "done",
                           !.health = status,
                           !.result = IF status.kind = "Ok"
                                        THEN Ok(Response(0))
                                        ELSE Err(status.kind)])
    /\ stats' = [stats EXCEPT !.total_requests = @ + 1]
    /\ UNCHANGED <<closed, active_requests, auto_pay, averaging, services,
                   middleware_stack,
                   budgetVars, closeVars, batch>>

\* health_check() lines 611-651: the three probes and the snapshot of the
\* statistics.
HealthCheck(i) ==
    /\ i.pc = "idle" /\ ~i.task
    /\ \E http \in BOOLEAN, cache \in BOOLEAN, chain_health \in ChainHealth :
         LET status == health_check(http, chain_health, cache) IN
         Step(i, [i EXCEPT !.api = "health_check", !.pc = "done",
                           !.health = status,
                           !.result = IF status.kind = "Ok"
                                        THEN Ok(Response(0))
                                        ELSE Err(status.kind)])
    /\ UNCHANGED <<clientVars, closeVars, batch>>

\* ------------------------------------------------------------ batch_get()
\* The task spawned by batch_get for the k-th URL, waiting for a semaphore
\* permit.
Spawned(k) == [Idle EXCEPT !.pc = "spawned", !.task = TRUE, !.url = k]

\* batch_get() lines 498-530: the closed check, the empty list, the
\* semaphore of max_concurrent permits and one spawned task per URL.
BatchGet ==
    /\ batch.pc = "idle"
    /\ \E n \in 0..CopiesIn(Idle, invocations), max_concurrent \in 0..MaxConcurrent :
         IF ensure_not_closed = "ClientClosed"
           THEN /\ batch' = [batch EXCEPT !.pc = "done", !.result = "ClientClosed"]
                /\ UNCHANGED invocations
           ELSE IF n = 0
             THEN /\ batch' = [batch EXCEPT !.pc = "done", !.result = "Ok"]
                  /\ UNCHANGED invocations
             ELSE /\ batch' = [batch EXCEPT !.pc = "join",
                                            !.max_concurrent = max_concurrent,
                                            !.permits = max_concurrent]
                  /\ invocations' = (invocations (-) [i \in {Idle} |-> n])
                                      (+) SetToBag({Spawned(k) : k \in 1..n})
    /\ UNCHANGED <<clientVars, closeVars>>

\* Mutant: the permit is dropped as soon as it is acquired (`let _ =`).
TaskAcquireDropped(i) ==
    /\ i.pc = "spawned"
    /\ batch.permits > 0
    /\ Step(i, [i EXCEPT !.pc = "permit"])
    /\ UNCHANGED <<clientVars, closeVars, batch>>

\* batch_get() lines 520-523: a task acquires a permit.
TaskAcquire(i) ==
    /\ i.pc = "spawned"
    /\ batch.permits > 0
    /\ batch' = [batch EXCEPT !.permits = @ - 1]
    /\ Step(i, [i EXCEPT !.pc = "permit"])
    /\ UNCHANGED <<clientVars, closeVars>>

\* The tasks of the batch, and the output of the JoinHandle of the k-th.
Tasks == {i \in Invs : i.task}
Output(k) == (CHOOSE i \in Tasks : i.url = k).result

\* Mutant: the first Err among the outputs is returned as the error of the
\* batch (the handles are joined as if they were the requests themselves).
BatchJoinFlattened ==
    /\ batch.pc = "join"
    /\ \A i \in Tasks : i.pc = "done"
    /\ batch' = [batch EXCEPT
                    !.pc = "done",
                    !.result = IF \A i \in Tasks : i.result.kind = "Ok"
                                 THEN "Ok" ELSE "Internal",
                    !.results = IF \A i \in Tasks : i.result.kind = "Ok"
                                  THEN [k \in 1..Cardinality(Tasks) |-> Output(k)]
                                  ELSE <<>>]
    /\ UNCHANGED <<clientVars, invocations, closeVars>>

\* batch_get() lines 533-541: try_join_all has the outputs of all the tasks,
\* in the order of the handles, which is the order of the URLs; they are
\* returned.
BatchJoin ==
    /\ batch.pc = "join"
    /\ \A i \in Tasks : i.pc = "done"
    /\ batch' = [batch EXCEPT
                    !.pc = "done", !.result = "Ok",
                    !.results = [k \in 1..Cardinality(Tasks) |-> Output(k)]]
    /\ UNCHANGED <<clientVars, invocations, closeVars>>

\* --------------------------------------------------------------- close()
\* Mutant: the flag is stored and the previous value is not looked at.
CloseStore(c) ==
    /\ cpc[c] = "idle"
    /\ \A d \in Closers : d < c => cpc[d] # "idle"
    /\ closed' = TRUE
    /\ cpc' = [cpc EXCEPT ![c] = "drain"]
    /\ first' = [first EXCEPT ![c] = ~closed]
    /\ UNCHANGED <<active_requests, stats, auto_pay, averaging, services,
                   middleware_stack, budgetVars, invocations, elapsed,
                   closeCalls, closeErrs, cresult, batch>>

\* Mutant: the flag is toggled (fetch_xor) instead of set.
CloseToggle(c) ==
    /\ cpc[c] = "idle"
    /\ \A d \in Closers : d < c => cpc[d] # "idle"
    /\ closed' = ~closed
    /\ IF closed
         THEN /\ cpc' = [cpc EXCEPT ![c] = "done"]
              /\ cresult' = [cresult EXCEPT ![c] = "Ok"]
              /\ UNCHANGED first
         ELSE /\ cpc' = [cpc EXCEPT ![c] = "drain"]
              /\ first' = [first EXCEPT ![c] = TRUE]
              /\ UNCHANGED cresult
    /\ UNCHANGED <<active_requests, stats, auto_pay, averaging, services,
                   middleware_stack, budgetVars, invocations, elapsed,
                   closeCalls, closeErrs, batch>>

\* close() lines 699-701: the swap of the closed flag.  Invocations are
\* numbered in the order in which they start.
CloseSwap(c) ==
    /\ cpc[c] = "idle"
    /\ \A d \in Closers : d < c => cpc[d] # "idle"
    /\ closed' = TRUE
    /\ IF closed
         THEN /\ cpc' = [cpc EXCEPT ![c] = "done"]
              /\ cresult' = [cresult EXCEPT ![c] = "Ok"]
              /\ UNCHANGED first
         ELSE /\ cpc' = [cpc EXCEPT ![c] = "drain"]
              /\ first' = [first EXCEPT ![c] = TRUE]
              /\ UNCHANGED cresult
    /\ UNCHANGED <<active_requests, stats, auto_pay, averaging, services,
                   middleware_stack, budgetVars, invocations, elapsed,
                   closeCalls, closeErrs, batch>>

\* Mutant: the drain loop has no timeout.
DrainConditionNoTimeout == active_requests > 0

\* close() lines 709-711: the condition of the drain loop.
DrainCondition == active_requests > 0 /\ ~elapsed

\* close() lines 709-713: one evaluation of the condition; sleep or leave.
CloseDrain(c) ==
    /\ cpc[c] = "drain"
    /\ cpc' = [cpc EXCEPT ![c] = IF DrainCondition THEN "sleep"
                                                    ELSE "chain_manager"]
    /\ UNCHANGED <<clientVars, invocations, first, elapsed, closeCalls,
                   closeErrs, cresult, batch>>

\* close() line 712: the sleep of the drain loop ends.
CloseWake(c) ==
    /\ cpc[c] = "sleep"
    /\ cpc' = [cpc EXCEPT ![c] = "drain"]
    /\ UNCHANGED <<clientVars, invocations, first, elapsed, closeCalls,
                   closeErrs, cresult, batch>>

\* The 30 seconds of line 706 pass while close() is in its drain loop.
Tick ==
    /\ \E c \in Closers : cpc[c] \in {"drain", "sleep"}
    /\ ~elapsed
    /\ elapsed' = TRUE
    /\ UNCHANGED <<clientVars, invocations, cpc, first, closeCalls, closeErrs,
                   cresult, batch>>

\* close() lines 722-741: the subsystems are closed in this order.
AfterClose(s) ==
    CASE s = "chain_manager" -> "payment_manager"
      [] s = "payment_manager" -> "cache_manager"
      [] s = "cache_manager" -> "metrics"
      [] s = "metrics" -> "done"

\* close() lines 723-741: one subsystem is closed; an error is logged and
\* the next one is closed; after the last one close() returns Ok.
CloseSubsystem(c) ==
    /\ cpc[c] \in Subsystems
    /\ closeCalls' = [closeCalls EXCEPT ![cpc[c]] = @ + 1]
    /\ \/ UNCHANGED closeErrs
       \/ closeErrs' = TRUE
    /\ cpc' = [cpc EXCEPT ![c] = AfterClose(cpc[c])]
    /\ cresult' = [cresult EXCEPT ![c] =
                      IF AfterClose(cpc[c]) = "done" THEN "Ok" ELSE @]
    /\ UNCHANGED <<clientVars, invocations, first, elapsed, batch>>

\* ------------------------------------------------------------------ Next
Next ==
    \/ \E i \in Invs : RequestEnsureNotClosed(i)
    \/ \E i \in Invs : RequestFetchAdd(i)
    \/ \E i \in Invs : CacheGet(i)
    \/ \E i \in Invs : ExecuteRequest(i)
    \/ \E i \in Invs : ParsePaymentRequirements(i)
    \/ \E i \in Invs : CreatePaymentHeader(i)
    \/ \E i \in Invs : ExecutePaidRequest(i)
    \/ \E i \in Invs : ProcessSettlement(i)
    \/ \E i \in Invs : Cancel(i)
    \/ \E c \in Closers : CloseSwap(c)
    \/ \E c \in Closers : CloseDrain(c)
    \/ \E c \in Closers : CloseWake(c)
    \/ Tick
    \/ \E c \in Closers : CloseSubsystem(c)

Spec == Init /\ [][Next]_vars

\* The lifecycle of a client configured with auto_pay = false: get, post,
\* batch_get, the payment accessors and close.
InitLifecycle == Init /\ auto_pay = FALSE

NextLifecycle ==
    \/ \E i \in Invs : RequestEnsureNotClosed(i)
    \/ \E i \in Invs : RequestFetchAdd(i)
    \/ \E i \in Invs : CacheGet(i)
    \/ \E i \in Invs : ExecuteRequest(i)
    \/ \E i \in Invs : Cancel(i)
    \/ \E i \in Invs : AccessorEnsureNotClosed(i)
    \/ \E i \in Invs : AccessorReturn(i)
    \/ BatchGet
    \/ \E i \in Invs : TaskAcquire(i)
    \/ BatchJoin
    \/ \E c \in Closers : CloseSwap(c)
    \/ \E c \in Closers : CloseDrain(c)
    \/ \E c \in Closers : CloseWake(c)
    \/ Tick
    \/ \E c \in Closers : CloseSubsystem(c)

LifecycleSpec == InitLifecycle /\ [][NextLifecycle]_vars

\* The drain: direct get/post calls of a client configured with
\* auto_pay = false, and close.
NextDrain ==
    \/ \E i \in Invs : RequestEnsureNotClosed(i)
    \/ \E i \in Invs : RequestFetchAdd(i)
    \/ \E i \in Invs : CacheGet(i)
    \/ \E i \in Invs : ExecuteRequest(i)
    \/ \E i \in Invs : Cancel(i)
    \/ \E c \in Closers : CloseSwap(c)
    \/ \E c \in Closers : CloseDrain(c)
    \/ \E c \in Closers : CloseWake(c)
    \/ Tick
    \/ \E c \in Closers : CloseSubsystem(c)

\* Fairness of the drain: a close() invocation that can take a step takes it
\* (the executor polls it, the subsystems answer), and time passes.  Nothing
\* is assumed of the requests: they may stay in flight for ever.
CloseStep(c) ==
    CloseSwap(c) \/ CloseDrain(c) \/ CloseWake(c) \/ CloseSubsystem(c)

LiveSpec ==
    /\ InitLifecycle
    /\ [][NextDrain]_vars
    /\ \A c \in Closers : WF_vars(CloseStep(c))
    /\ WF_vars(Tick)

\* The read-only accessors called while direct get/post calls are made and
\* the client is closed (auto_pay = false).
NextHealth ==
    \/ \E i \in Invs : RequestEnsureNotClosed(i)
    \/ \E i \in Invs : RequestFetchAdd(i)
    \/ \E i \in Invs : CacheGet(i)
    \/ \E i \in Invs : ExecuteRequest(i)
    \/ \E i \in Invs : IsClosed(i)
    \/ \E i \in Invs : GetConfig(i)
    \/ \E i \in Invs : HealthCheck(i)
    \/ \E c \in Closers : CloseSwap(c)
    \/ \E c \in Closers : CloseDrain(c)
    \/ \E c \in Closers : CloseWake(c)
    \/ Tick
    \/ \E c \in Closers : CloseSubsystem(c)

HealthSpec == InitLifecycle /\ [][NextHealth]_vars

\* The request pipeline of a client configured with auto_pay = true and a
\* global spend cap: get, post and batch_get, without close.  All steps lie
\* within one window of window_seconds.
InitPipeline ==
    New /\ auto_pay = TRUE /\ global_spend_cap = Some(GlobalSpendCap)

NextPipeline ==
    \/ \E i \in Invs : RequestEnsureNotClosed(i)
    \/ \E i \in Invs : RequestFetchAdd(i)
    \/ \E i \in Invs : CacheGet(i)
    \/ \E i \in Invs : ExecuteRequest(i)
    \/ \E i \in Invs : ParsePaymentRequirements(i)
    \/ \E i \in Invs : CreatePaymentHeader(i)
    \/ \E i \in Invs : ExecutePaidRequest(i)
    \/ \E i \in Invs : ProcessSettlement(i)
    \/ \E i \in Invs : Cancel(i)
    \/ BatchGet
    \/ \E i \in Invs : TaskAcquire(i)
    \/ BatchJoin

PipelineSpec == InitPipeline /\ [][NextPipeline]_vars

\* add_middleware() lines 671-673: the middleware is appended to the stack;
\* the call does not look at the closed flag.
AddMiddleware ==
    /\ \E m \in Middlewares \ {middleware_stack[k] :
                                    k \in 1..Len(middleware_stack)} :
         middleware_stack' = Append(middleware_stack, m)
    /\ UNCHANGED <<closed, active_requests, stats, auto_pay, averaging, services,
                   budgetVars, invocations, closeVars, batch>>

\* The request pipeline of a client configured with auto_pay = true to which
\* middlewares are added while get and post calls are made.
InitMiddleware == New /\ auto_pay = TRUE /\ global_spend_cap = None

NextMiddleware ==
    \/ AddMiddleware
    \/ \E i \in Invs : RequestEnsureNotClosed(i)
    \/ \E i \in Invs : RequestFetchAdd(i)
    \/ \E i \in Invs : CacheGet(i)
    \/ \E i \in Invs : ExecuteRequest(i)
    \/ \E i \in Invs : ParsePaymentRequirements(i)
    \/ \E i \in Invs : CreatePaymentHeader(i)
    \/ \E i \in Invs : ExecutePaidRequest(i)
    \/ \E i \in Invs : ProcessSettlement(i)

MiddlewareSpec == InitMiddleware /\ [][NextMiddleware]_vars

\* update_stats() lines 788-794 for the average so far, total_requests
\* (already incremented, line 767) and the duration of the call: the new
\* average, or the panic of a Duration divided by zero.
as_u32(x) == x % U32Modulus

average_duration(avg, total_requests, duration) ==
    IF total_requests = 1
      THEN [panic |-> FALSE, average |-> duration]
      ELSE LET total_duration == avg * as_u32(total_requests - 1) + duration IN
           IF as_u32(total_requests) = 0
             THEN [panic |-> TRUE, average |-> avg]
             ELSE [panic |-> FALSE,
                   average |-> total_duration \div as_u32(total_requests)]

Min(a, b) == IF a < b THEN a ELSE b
Max(a, b) == IF a > b THEN a ELSE b

\* update_stats() lines 767 and 788-794 for a call of duration d: the
\* counter, the average, and the least, the greatest and the sum of the
\* durations counted so far.
UpdateAverage(d) ==
    /\ averaging.total_requests < MaxSamples
    /\ LET n == averaging.total_requests + 1
           new == average_duration(averaging.average_duration, n, d)
       IN averaging' =
            [total_requests |-> n,
             average_duration |-> new.average,
             panics |-> averaging.panics + (IF new.panic THEN 1 ELSE 0),
             least |-> IF n = 1 THEN d ELSE Min(averaging.least, d),
             greatest |-> Max(averaging.greatest, d),
             sum |-> averaging.sum + d]
    /\ UNCHANGED <<closed, active_requests, stats, auto_pay, services,
                   middleware_stack, budgetVars, invocations, closeVars,
                   batch>>

\* The statistics of a client whose requests take 1..MaxDuration.
NextAverage == \E d \in 1..MaxDuration : UpdateAverage(d)

AverageSpec == InitLifecycle /\ [][NextAverage]_vars

\* ------------------------------------------ example: ProductService
\* The frame of a call on a service of the example application.
ServiceCall(svc) ==
    /\ services' = svc
    /\ UNCHANGED <<closed, active_requests, stats, auto_pay, averaging,
                   middleware_stack, budgetVars, invocations, closeVars,
                   batch>>

ProductEvent(op, id, api, ok, product) ==
    [op |-> op, id |-> id, api |-> api, ok |-> ok, product |-> product]

\* What a call of ProductService leaves: the cache and the event logged.
ProductCall(cache, event) ==
    /\ Len(services.product_log) < MaxOps
    /\ ServiceCall([services EXCEPT
                       !.cache = cache,
                       !.product_log = Append(@, event)])

\* services.rs lines 23-33.
CreateProduct ==
    \E a \in ProductAnswers :
        ProductCall(IF a.ok THEN [services.cache EXCEPT
                                     ![a.product.id] = Some(a.product)]
                            ELSE services.cache,
                    ProductEvent("create_product", "", TRUE, a.ok, a.product))

\* services.rs lines 35-49.
GetProduct(product_id) ==
    IF services.cache[product_id] # None
      THEN ProductCall(services.cache,
                       ProductEvent("get_product", product_id, FALSE, TRUE,
                                    services.cache[product_id][1]))
      ELSE \E a \in ProductAnswers :
             ProductCall(IF a.ok THEN [services.cache EXCEPT
                                          ![a.product.id] = Some(a.product)]
                                 ELSE services.cache,
                         ProductEvent("get_product", product_id, TRUE, a.ok,
                                      a.product))

\* Mutant: the cache is left as it was after an update.
UpdateProductStale(product_id) ==
    \E a \in ProductAnswers :
        ProductCall(services.cache,
                    ProductEvent("update_product", product_id, TRUE, a.ok,
                                 a.product))

\* services.rs lines 60-70.
UpdateProduct(product_id) ==
    \E a \in ProductAnswers :
        ProductCall(IF a.ok THEN [services.cache EXCEPT
                                     ![a.product.id] = Some(a.product)]
                            ELSE services.cache,
                    ProductEvent("update_product", product_id, TRUE, a.ok,
                                 a.product))

\* services.rs lines 72-82.
DeleteProduct(product_id) ==
    \E ok \in BOOLEAN :
        ProductCall(IF ok THEN [services.cache EXCEPT ![product_id] = None]
                          ELSE services.cache,
                    ProductEvent("delete_product", product_id, TRUE, ok,
                                 NoProduct))

\* services.rs lines 88-91 (ProductService::clear_cache).
ProductClearCache ==
    ProductCall([id \in ProductIds |-> None],
                ProductEvent("clear_cache", "", FALSE, TRUE, NoProduct))

NextProduct ==
    \/ CreateProduct
    \/ \E id \in ProductIds : GetProduct(id)
    \/ \E id \in ProductIds : UpdateProduct(id)
    \/ \E id \in ProductIds : DeleteProduct(id)
    \/ ProductClearCache

ProductSpec == InitLifecycle /\ [][NextProduct]_vars

\* ------------------------------------------- example: AccessService
AccessEvent(op, request, api, ok, response) ==
    [op |-> op, request |-> request, api |-> api, ok |-> ok,
     response |-> response]

AccessCall(access_cache, event) ==
    /\ Len(services.access_log) < MaxOps
    /\ ServiceCall([services EXCEPT
                       !.access_cache = access_cache,
                       !.access_log = Append(@, event)])

\* Mutant: the API is asked on every call.
CheckAccessUncached(access_request) ==
    \E a \in AccessAnswers :
        AccessCall(IF a.ok THEN [services.access_cache EXCEPT
                                    ![cache_key(access_request)] =
                                        Some(a.response)]
                           ELSE services.access_cache,
                   AccessEvent("check_access", access_request, TRUE, a.ok,
                               a.response))

\* services.rs lines 158-177.
CheckAccess(access_request) ==
    LET key == cache_key(access_request) IN
    IF services.access_cache[key] # None
      THEN AccessCall(services.access_cache,
                      AccessEvent("check_access", access_request, FALSE, TRUE,
                                  services.access_cache[key][1]))
      ELSE \E a \in AccessAnswers :
             AccessCall(IF a.ok THEN [services.access_cache EXCEPT
                                         ![key] = Some(a.response)]
                                ELSE services.access_cache,
                        AccessEvent("check_access", access_request, TRUE,
                                    a.ok, a.response))

\* services.rs lines 179-182 (AccessService::clear_cache).
AccessClearCache ==
    AccessCall([k \in AccessKeys |-> None],
               AccessEvent("clear_cache",
                           CHOOSE r \in AccessRequests : TRUE, FALSE, TRUE,
                           NoAccessResponse))

NextAccess ==
    \/ \E r \in AccessRequests : CheckAccess(r)
    \/ AccessClearCache

AccessSpec == InitLifecycle /\ [][NextAccess]_vars

\* batch_get() lines 526-528: the timeout of a task expires while its get
\* is pending; the get is dropped and the task returns Error::Timeout.
TaskTimeout(i) == i.task /\ Cancel(i)

\* The deadlines: get, post and batch_get of a client configured with
\* auto_pay = false whose callers wait for the result and never drop a call.
NextTimeout ==
    \/ \E i \in Invs : RequestEnsureNotClosed(i)
    \/ \E i \in Invs : RequestFetchAdd(i)
    \/ \E i \in Invs : CacheGet(i)
    \/ \E i \in Invs : ExecuteRequest(i)
    \/ \E i \in Invs : TaskTimeout(i)
    \/ BatchGet
    \/ \E i \in Invs : TaskAcquire(i)
    \/ BatchJoin

\* Fairness of the deadlines: a timer that is armed fires.  Nothing is
\* assumed of the cache manager, the middleware and the transport: they may
\* never answer.
TimeoutSpec ==
    /\ InitLifecycle
    /\ [][NextTimeout]_vars
    /\ WF_vars(\E i \in Invs : TaskTimeout(i))

\* A step of a task of batch_get: it acquires a permit, runs its get, or
\* its timeout expires.
TaskStep(i) ==
    /\ i.task
    /\ \/ TaskAcquire(i)
       \/ RequestEnsureNotClosed(i)
       \/ RequestFetchAdd(i)
       \/ CacheGet(i)
       \/ ExecuteRequest(i)
       \/ TaskTimeout(i)

\* Fairness of a batch: the executor runs every task that can take a step,
\* every get of a task is answered or times out, and batch_get is polled
\* when all its tasks have ended.
BatchSpec ==
    /\ InitLifecycle
    /\ [][NextTimeout]_vars
    /\ WF_vars(\E i \in Invs : TaskStep(i))
    /\ WF_vars(BatchJoin)

\* ================================================================ claims
\* The invocations that have incremented active_requests and not returned.
InFlight == [i \in {x \in Invs : x.pc \in SuspensionPoints} |-> invocations[i]]
Completed(i) == i.pc = "done" /\ i.result.kind \notin {"ClientClosed", "Cancelled", "Timeout"}

\* C1: active_requests equals the number of request() invocations that
\* have incremented it and not yet returned, on every exit path; it never
\* underflows, and when every call has returned it is back to zero.
C1_ActiveRequestsIsInFlight ==
    /\ active_requests = BagCardinality(InFlight)
    /\ active_requests <= NumRequests
    /\ (\A i \in Invs : i.pc \in {"idle", "done"}) => active_requests = 0

C1_Witness ==
    /\ active_requests = 1
    /\ \E i \in Invs : i.pc = "done" /\ i.result.kind = "Cache"
    /\ \E i \in Invs : i.pc = "retry"

\* C2: an invocation enters the middleware chain at most twice and signs at
\* most once; a 402 answer to the paid retry ends the payment handling.
C2_AtMostTwoTraversals ==
    \A i \in Invs :
        /\ i.chainEntries <= 2
        /\ i.signed <= 1
        /\ i.paidStatus = 402 =>
              /\ i.pc \in {"settle", "done"}
              /\ i.chainEntries = 2
              /\ i.signed = 1

C2_Witness ==
    \E i \in Invs : i.pc = "done" /\ i.paidStatus = 402 /\ i.chainEntries = 2

\* The invocations whose call has not been made yet (a task makes it once it
\* holds a permit), and those refused by the closed check.
NotStarted == [i \in {x \in Invs : x.pc \in {"idle", "permit"}} |-> invocations[i]]
Refused == [i \in {x \in Invs : x.result.kind = "ClientClosed"} |-> invocations[i]]

\* C3: once the closed flag is set, every get, post, task of a running
\* batch, batch_get, get_payment_history and get_payment_statistics call
\* that starts returns ClientClosed at once: active_requests and the
\* statistics are unchanged and the call has touched neither the cache, the
\* middleware chain, nor the payment manager.
C3_ClosedRefuses ==
    [][ /\ (closed /\ BagCardinality(NotStarted') < BagCardinality(NotStarted)) =>
              /\ BagCardinality(NotStarted') = BagCardinality(NotStarted) - 1
              /\ BagCardinality(Refused') = BagCardinality(Refused) + 1
              /\ UNCHANGED <<active_requests, stats>>
        /\ (closed /\ batch.pc = "idle" /\ batch'.pc # "idle") =>
              /\ batch'.pc = "done" /\ batch'.result = "ClientClosed"
              /\ UNCHANGED <<invocations, active_requests, stats>>
        /\ \A i \in Invs' :
              i.result.kind = "ClientClosed" =>
                  /\ i.pc = "done"
                  /\ i.cacheProbes = 0 /\ i.chainEntries = 0
                  /\ i.pmCalls = 0 /\ i.signed = 0
      ]_vars

C3_Witness ==
    /\ closed
    /\ \E i \in Invs : i.task /\ i.result.kind = "ClientClosed"
    /\ \E i \in Invs :
         i.api = "get_payment_statistics" /\ i.result.kind = "ClientClosed"

\* C4: unless the shutdown timeout has elapsed, no invocation is between
\* its fetch_add and its return (probing the cache, in the middleware chain
\* or in the payment manager) once close() has begun to close subsystems.
C4_AdmissionAtomicWithClose ==
    ((\E s \in Subsystems : closeCalls[s] > 0) /\ ~elapsed) =>
        BagCardinality(InFlight) = 0

\* C5: close() invokes a subsystem's close only when active_requests is 0
\* or the shutdown timeout has elapsed.
C5_NoCloseWhileActive ==
    [][(closeCalls' # closeCalls) => (active_requests = 0 \/ elapsed)]_vars

\* C6: close() is idempotent: the flag is set, exactly one invocation wins
\* the swap and closes each subsystem once; every other invocation returns
\* Ok at once, without draining and without closing anything.
C6_CloseIdempotent ==
    /\ \A s \in Subsystems : closeCalls[s] <= 1
    /\ Cardinality({c \in Closers : first[c]}) <= 1
    /\ \A c \in Closers : cpc[c] # "idle" => closed
    /\ \A c \in Closers :
         (cpc[c] # "idle" /\ ~first[c]) => (cpc[c] = "done" /\ cresult[c] = "Ok")
    /\ (\A c \in Closers : cpc[c] = "done") =>
         \A s \in Subsystems : closeCalls[s] = 1

C6_Witness ==
    /\ \A c \in Closers : cpc[c] = "done" /\ cresult[c] = "Ok"
    /\ \A s \in Subsystems : closeCalls[s] = 1

\* C7: the closed flag is false until the first close() call starts, true
\* from then on, and nothing resets it.
C7_ClosedMonotonic ==
    /\ ~closed
    /\ [][ /\ closed => closed'
           /\ closed' <=> (\E c \in Closers : cpc'[c] # "idle")
           /\ is_closed' = closed' ]_vars

C7_Witness ==
    /\ is_closed
    /\ \E c \in Closers : cpc[c] = "done" /\ first[c]
    /\ \E i \in Invs : i.result.kind = "ClientClosed"

\* C8: every close() call eventually returns Ok, even if an in-flight
\* request never completes and even if a subsystem's close fails; the call
\* that won the swap has then closed every subsystem.
C8_CloseReturns ==
    /\ \A c \in Closers :
         (cpc[c] # "idle") ~> (cpc[c] = "done" /\ cresult[c] = "Ok")
    /\ [](\A c \in Closers :
            (cpc[c] = "done" /\ first[c]) =>
                \A s \in Subsystems : closeCalls[s] >= 1)

C8_Witness ==
    /\ \E c \in Closers : first[c] /\ cpc[c] = "done" /\ cresult[c] = "Ok"
    /\ closeErrs
    /\ elapsed
    /\ active_requests > 0

\* C9: a call whose paid retry is answered 402 again returns the
\* PaymentRejected error, reports no payment and is counted as failed, and
\* signs no second payment.
C9_RejectedRetryIsError ==
    \A i \in Invs :
        (i.pc = "done" /\ i.paidStatus = 402) =>
            /\ i.result.kind = "PaymentRejected"
            /\ ~i.result.response.payment_made
            /\ i.signed = 1

\* C10: a challenge above max_amount_per_request ends in BudgetExceeded with
\* nothing signed, one traversal and no payment reported; a challenge equal
\* to the cap is signed (unless the signer fails) and retried.
Decided(i) == i.pc \in {"retry", "settle", "done"} /\ i.challenge.parsable

C10_PerRequestCap ==
    \A i \in Invs :
        /\ (Decided(i) /\ i.challenge.max_amount_required > MaxAmountPerRequest) =>
              /\ i.pc = "done"
              /\ i.result.kind = "BudgetExceeded"
              /\ i.signed = 0
              /\ i.chainEntries = 1
              /\ ~i.result.response.payment_made
        /\ (Decided(i) /\ i.challenge.max_amount_required = MaxAmountPerRequest) =>
              /\ i.result.kind # "BudgetExceeded"
              /\ i.result.kind = "Signing" \/ i.signed = 1
        /\ i.result.kind = "BudgetExceeded" =>
              i.challenge.max_amount_required > MaxAmountPerRequest

C10_Witness ==
    /\ \E i \in Invs :
         /\ i.result.kind = "BudgetExceeded"
         /\ i.challenge.max_amount_required = MaxAmountPerRequest + 1
    /\ \E i \in Invs :
         /\ i.pc = "done" /\ i.result.kind = "Ok"
         /\ i.result.response.payment_made
         /\ i.challenge.max_amount_required = MaxAmountPerRequest

\* The amounts of the assertions signed for the invocations of S that were
\* not cancelled.
RECURSIVE SignedAmount(_)
SignedAmount(S) ==
    IF S = {} THEN 0
    ELSE LET i == CHOOSE x \in S : TRUE IN
         invocations[i] * i.signed * i.challenge.max_amount_required
           + SignedAmount(S \ {i})

\* C11: with a global cap configured, under every interleaving of calls
\* that receive a 402, the budget reserved within the window never exceeds
\* global_spend_cap, and the amounts signed and the amounts reported as paid
\* are covered by it: two calls that fit only one at a time are not both
\* signed.
C11_GlobalSpendCap ==
    /\ reserved <= global_spend_cap[1]
    /\ SignedAmount(Invs) <= reserved
    /\ stats.total_amount_paid <= reserved

C11_Witness ==
    /\ reserved = global_spend_cap[1]
    /\ \E i \in Invs :
         /\ i.result.kind = "BudgetExceeded"
         /\ i.challenge.max_amount_required <= MaxAmountPerRequest
    /\ \E i \in Invs : i.signed = 1 /\ i.pc = "retry"

\* The step in which the paid retry of invocation i fails in the middleware
\* chain or the transport.
RetryFailed(i) ==
    /\ i.pc = "retry"
    /\ \E t \in middleware_stack_execute :
         Step(i, [i EXCEPT !.pc = "done", !.chainEntries = @ + 1,
                           !.transportCalls = @ + t.transport,
                           !.trace = t.trace,
                           !.result = Err("Network")])

\* C12: when the paid retry fails at the transport level, the reservation
\* made for the call is rolled back: the reserved budget goes down by the
\* amount that was reserved when its payment header was created.
C12_RetryFailureRollsBack ==
    [][ \A i \in Invs :
          RetryFailed(i) =>
              reserved' = reserved - i.challenge.max_amount_required ]_vars

\* C13: with auto_pay = false a first response of status 402 is not handed
\* back as an Ok response: nothing is signed, the middleware chain is
\* entered once and the call returns the PaymentRequired error.
C13_PaymentRequiredSurfaced ==
    ~auto_pay =>
        \A i \in Invs :
            /\ i.signed = 0
            /\ i.chainEntries <= 1
            /\ i.result.kind = "Ok" => i.result.response.status # 402

\* C14: a cache hit returns only an entry stored under the auth_scope of the
\* call that probes: the lookup is keyed by the scope as well as by the URL.
C14_HitWithinAuthScope ==
    \A i \in Invs : i.hit # None => i.hit[1] = auth_scope(i)

\* A GET that went to the transport and came back with a 2xx response.
FetchedOk(i) ==
    /\ i.pc = "done" /\ i.api = "get" /\ i.chainEntries >= 1
    /\ i.result.kind = "Ok" /\ i.result.response.status = 200

\* C15: a GET that the transport answered with a 2xx response has stored
\* that response in the cache when it returns.
C15_SuccessfulGetIsCached ==
    \A i \in Invs : FetchedOk(i) => i.cacheInserts = 1

\* C16: no call stores a response of a status other than 2xx, or an error
\* result, in the cache.
C16_OnlySuccessIsCached ==
    \A i \in Invs :
        i.cacheInserts > 0 =>
            i.result.kind = "Ok" /\ i.result.response.status = 200

C16_Witness ==
    /\ \E i \in Invs :
         /\ i.pc = "done" /\ i.api = "get" /\ i.result.kind = "Ok"
         /\ i.result.response.status = 402 /\ i.cacheInserts = 0
    /\ \E i \in Invs :
         /\ i.pc = "done" /\ i.api = "get" /\ i.result.kind = "Network"
         /\ i.cacheInserts = 0

\* C17: a batch_get that spawned tasks returns Ok with one entry per URL,
\* the k-th entry being what the get of the k-th URL returned, whatever the
\* order in which the tasks ended; an error or a timeout of one URL is the
\* Err of its own entry only.
C17_BatchResultsInInputOrder ==
    batch.pc = "done" =>
        IF Tasks = {}
          THEN batch.results = <<>>
          ELSE /\ batch.result = "Ok"
               /\ Len(batch.results) = Cardinality(Tasks)
               /\ \A i \in Tasks :
                    /\ i.url \in 1..Len(batch.results)
                    /\ batch.results[i.url] = i.result
               /\ \A i, j \in Tasks : i.url = j.url => i = j

C17_Witness ==
    /\ batch.pc = "done"
    /\ Len(batch.results) = 2
    /\ batch.results[1].kind = "Timeout"
    /\ batch.results[2].kind = "Ok"
    /\ \E i \in Tasks : i.url = 2 /\ i.chainEntries = 2

\* The tasks that hold a permit: from the acquire to the end of the task.
Holders == {i \in Tasks : i.pc \in {"permit", "admitted"} \cup SuspensionPoints}

\* C18: at no time do more than max_concurrent tasks of the batch hold a
\* permit, so no more than max_concurrent of its requests are between
\* admission and completion; every permit not held is available again,
\* whether the task ended with a response, an error or a timeout.
C18_AtMostMaxConcurrent ==
    batch.pc # "idle" =>
        /\ Cardinality(Holders) <= batch.max_concurrent
        /\ Cardinality({i \in Tasks : i.pc \in SuspensionPoints})
              <= batch.max_concurrent
        /\ batch.permits + Cardinality(Holders) = batch.max_concurrent

C18_Witness ==
    /\ batch.pc = "join"
    /\ batch.max_concurrent = 1
    /\ batch.permits = 0
    /\ \E i \in Tasks : i.pc = "done" /\ i.result.kind = "Timeout"
    /\ \E i \in Tasks : i.pc = "execute"

\* C19: every get or post that is waiting for the cache, the middleware
\* chain or the transport stops waiting, because it is answered or because
\* its deadline expires: from some time on no call is pending.
C19_EveryCallIsBounded ==
    <>[](\A i \in Invs : i.pc \notin SuspensionPoints)

\* The step in which the future of invocation i is dropped at its await.
Dropped(i) ==
    /\ i.pc \in SuspensionPoints
    /\ Step(i, [i EXCEPT !.pc = "done",
                         !.result = Err(IF i.task THEN "Timeout" ELSE "Cancelled"),
                         !.challenge = NoChallenge, !.paidStatus = 0,
                         !.settlement_header = None])

\* C20: dropping the future of a request() at any of its awaits, by the
\* caller or by the timeout of a batch task, decrements active_requests by
\* exactly one in that step, and once no call is pending the counter is
\* zero.
C20_CancelDecrementsOnce ==
    /\ [][ \A i \in Invs :
             Dropped(i) => active_requests' = active_requests - 1 ]_vars
    /\ []((\A i \in Invs : i.pc \notin SuspensionPoints) =>
             active_requests = 0)

C20_Witness ==
    /\ active_requests = 0
    /\ \E i \in Invs : i.result.kind = "Timeout" /\ i.pmCalls = 1
    /\ \E i \in Invs : i.result.kind = "Cancelled" /\ i.signed = 1

\* The calls that passed admission and returned without being dropped.
Returned ==
    [i \in {x \in Invs : Completed(x)} |-> invocations[i]]
ReturnedOk ==
    [i \in {x \in Invs : Completed(x) /\ x.result.kind = "Ok"} |-> invocations[i]]

\* C21: every call that passed admission and returned is counted once:
\* total_requests is the number of such calls, successful_requests the
\* number of those that returned Ok and failed_requests the number of the
\* others, calls answered from the cache and calls whose cache probe failed
\* included.
C21_EveryCallCountedOnce ==
    /\ stats.total_requests = BagCardinality(Returned)
    /\ stats.successful_requests = BagCardinality(ReturnedOk)
    /\ stats.failed_requests =
          BagCardinality(Returned) - BagCardinality(ReturnedOk)

\* C22: a response returned with payment_made = true carries the network
\* and the max_amount_required of the requirements that were signed for the
\* call; a response returned by a call that signed nothing has
\* payment_made = false and no payment fields.
C22_PaidResponseFields ==
    \A i \in Invs :
        i.result.kind = "Ok" =>
            LET r == i.result.response IN
            /\ r.payment_made =>
                  /\ i.signed = 1
                  /\ r.network = Some(i.challenge.network)
                  /\ r.payment_amount = Some(i.challenge.max_amount_required)
            /\ i.signed = 0 =>
                  /\ ~r.payment_made
                  /\ r.payment_amount = None /\ r.network = None

C22_Witness ==
    /\ \E i \in Invs :
         /\ i.result.kind = "Ok" /\ i.result.response.payment_made
         /\ i.result.response.network = Some("base")
         /\ i.result.response.payment_amount = Some(MaxAmountPerRequest)
    /\ \E i \in Invs :
         /\ i.result.kind = "Ok" /\ i.chainEntries = 1
         /\ ~i.result.response.payment_made

\* C23 as stated: the transaction_hash of a returned response is populated
\* if and only if the paid response carried an X-PAYMENT-RESPONSE header.
C23_HashIffHeader ==
    \A i \in Invs :
        i.result.kind = "Ok" =>
            (i.result.response.transaction_hash # None
               <=> i.settlement_header # None)

\* C23, amended: the transaction_hash of a returned response is populated if
\* and only if the paid response carried an X-PAYMENT-RESPONSE header that
\* decodes to a settlement with a transaction, and it is that transaction;
\* the payer is copied from the same settlement.
C23_HashIffDecodedTransaction ==
    \A i \in Invs :
        i.result.kind = "Ok" =>
            LET r == i.result.response
                h == i.settlement_header
            IN IF h # None /\ h[1].decodable
                 THEN /\ r.transaction_hash = h[1].transaction
                      /\ r.payer = h[1].payer
                 ELSE /\ r.transaction_hash = None
                      /\ r.payer = None

C23_Witness ==
    /\ \E i \in Invs :
         /\ i.result.kind = "Ok" /\ i.settlement_header = Some(Undecodable)
         /\ i.result.response.transaction_hash = None
    /\ \E i \in Invs :
         /\ i.result.kind = "Ok"
         /\ i.result.response.transaction_hash = Some("0xdead")

\* C24: a call that returns a response with payment_made = true and a
\* transaction_hash has appended exactly one PaymentRecord to the payment
\* history; a call that returns an error or an unpaid response has appended
\* none.
C24_OneRecordPerSettledPayment ==
    \A i \in Invs :
        i.pc = "done" =>
            IF /\ i.result.kind = "Ok"
               /\ i.result.response.payment_made
               /\ i.result.response.transaction_hash # None
              THEN i.records = 1
              ELSE i.records = 0

\* C25: a paid response that carries X-PAYMENT-RESPONSE but whose status is
\* not 2xx is a failed payment: the result is not marked payment_made (so
\* that update_stats adds nothing to payments_made and total_amount_paid)
\* and no PaymentRecord is written.
C25_NonSuccessStatusIsFailedPayment ==
    \A i \in Invs :
        (i.pc = "done" /\ i.settlement_header # None /\ i.paidStatus # 200) =>
            /\ ~(i.result.kind = "Ok" /\ i.result.response.payment_made)
            /\ i.records = 0

\* C26: when the paid retry is answered 2xx with a settlement whose success
\* is false, the call returns the content as an Ok response that is not
\* marked payment_made, writes no PaymentRecord and is not counted in
\* payments_made and total_amount_paid.
C26_FailedSettlementIsNotAPayment ==
    \A i \in Invs :
        (/\ i.pc = "done" /\ i.paidStatus = 200
         /\ i.settlement_header # None
         /\ i.settlement_header[1].decodable
         /\ ~i.settlement_header[1].success) =>
            /\ i.result.kind = "Ok"
            /\ i.result.response.status = 200
            /\ ~i.result.response.payment_made
            /\ i.result.response.payment_amount = None
            /\ i.records = 0

\* The step in which invocation i returns after the X-PAYMENT-RESPONSE
\* header of its paid response failed to decode.
DecodeFailed(i) ==
    /\ i.pc = "settle"
    /\ i.settlement_header = Some(Undecodable)
    /\ \E res \in {Ok(MarkPaid(Response(i.paidStatus), i.challenge)),
                     Err("Parse")} :
         Step(i, [i EXCEPT !.pc = "done", !.pmCalls = @ + 1, !.result = res])

\* C27: a header X-PAYMENT-RESPONSE that does not decode does not fail the
\* call: it returns Ok with the status that was delivered, with
\* transaction_hash and payer unset, and it is counted as successful.
C27_DecodeFailureIsIgnored ==
    /\ [](\A i \in Invs :
            (i.pc = "done" /\ i.settlement_header = Some(Undecodable)) =>
                /\ i.result.kind = "Ok"
                /\ i.result.response.status = i.paidStatus
                /\ i.result.response.transaction_hash = None
                /\ i.result.response.payer = None)
    /\ [][ \A i \in Invs :
             DecodeFailed(i) =>
                 /\ stats'.total_requests = stats.total_requests + 1
                 /\ stats'.successful_requests = stats.successful_requests + 1
                 /\ stats'.failed_requests = stats.failed_requests ]_vars

C27_Witness ==
    /\ stats.successful_requests = 1
    /\ stats.failed_requests = 0
    /\ \E i \in Invs :
         /\ i.pc = "done" /\ i.settlement_header = Some(Undecodable)
         /\ i.result.kind = "Ok" /\ i.result.response.status = 200

\* The step in which invocation i returns because the body of the 402
\* response did not parse as payment requirements.
ParseFailed(i) ==
    /\ i.pc = "parse"
    /\ ~i.challenge.parsable
    /\ Step(i, [i EXCEPT !.pc = "done", !.pmCalls = @ + 1,
                         !.result = Err("Parse")])

\* C28: when the body of the 402 response does not parse as payment
\* requirements, the call returns the Parse error with nothing signed and
\* the middleware chain entered once (no retry), and it is counted as failed.
C28_UnparsableChallenge ==
    /\ [](\A i \in Invs :
            (/\ i.chainEntries >= 1
             /\ i.pc \notin {"execute", "parse"}
             /\ i.result.kind \notin {"Network", "Ok", "Timeout", "Cancelled"}
             /\ ~i.challenge.parsable) =>
                /\ i.pc = "done"
                /\ i.result.kind = "Parse"
                /\ i.signed = 0
                /\ i.chainEntries = 1
                /\ i.pmCalls = 1)
    /\ [][ \A i \in Invs :
             ParseFailed(i) =>
                 /\ stats'.total_requests = stats.total_requests + 1
                 /\ stats'.failed_requests = stats.failed_requests + 1
                 /\ stats'.successful_requests = stats.successful_requests
                 /\ stats'.payments_made = stats.payments_made ]_vars

C28_Witness ==
    /\ stats.failed_requests = 1
    /\ \E i \in Invs :
         /\ i.pc = "done" /\ i.result.kind = "Parse"
         /\ ~i.challenge.parsable /\ i.chainEntries = 1 /\ i.signed = 0

\* The step in which invocation i returns because the payment header could
\* not be signed.
SigningFailed(i) ==
    /\ i.pc = "sign"
    /\ Step(i, [i EXCEPT !.pc = "done", !.pmCalls = @ + 1,
                         !.result = Err("Signing")])

\* C29: when the payment header cannot be signed, the call returns the
\* Signing error with the middleware chain entered once (no retry), no
\* payment is reported or recorded, and the reserved budget is what it was
\* before the header was asked for.
C29_SigningFailure ==
    /\ [](\A i \in Invs :
            i.result.kind = "Signing" =>
                /\ i.pc = "done"
                /\ i.chainEntries = 1
                /\ i.signed = 0
                /\ ~i.result.response.payment_made
                /\ i.records = 0)
    /\ [][ \A i \in Invs :
             SigningFailed(i) =>
                 /\ reserved' = reserved
                 /\ stats'.failed_requests = stats.failed_requests + 1
                 /\ stats'.payments_made = stats.payments_made
                 /\ stats'.total_amount_paid = stats.total_amount_paid ]_vars

C29_Witness ==
    /\ reserved = 0
    /\ \E i \in Invs :
         /\ i.pc = "done" /\ i.result.kind = "Signing"
         /\ i.challenge.max_amount_required = MaxAmountPerRequest
         /\ i.chainEntries = 1

\* C30: when a middleware short-circuits the traversal, the transport is
\* not invoked and the challenge handling is skipped, whatever the status
\* of the response and with auto_pay = true: no requirements are parsed,
\* nothing is signed and the chain is not entered a second time.
C30_ShortCircuitSkipsChallenge ==
    \A i \in Invs :
        i.shortCircuited =>
            /\ i.transportCalls = 0
            /\ i.pmCalls = 0
            /\ i.signed = 0
            /\ i.chainEntries = 1

\* The request side, the response side and the transport events of the last
\* traversal made for invocation i.
RequestSide(i) == SelectSeq(i.trace, LAMBDA e : e.side = "request")
ResponseSide(i) == SelectSeq(i.trace, LAMBDA e : e.side = "response")
TransportAt(i) == {n \in 1..Len(i.trace) : i.trace[n].side = "terminal"}

\* C31: in every traversal, the original one and the paid retry, the
\* middlewares see the request in the order in which they were registered
\* and the response in the reverse order, and the transport is the terminal
\* handler: it comes after every request side and before every response
\* side.
C31_RegistrationOrder ==
    \A i \in Invs :
        LET req == RequestSide(i)
            resp == ResponseSide(i)
        IN
        /\ Len(req) <= Len(middleware_stack)
        /\ \A n \in 1..Len(req) :
              /\ req[n].handler = middleware_stack[n]
              /\ i.trace[n] = req[n]
        /\ Len(resp) = Len(req)
        /\ \A n \in 1..Len(resp) :
              /\ resp[n].handler = req[Len(req) + 1 - n].handler
              /\ i.trace[Len(i.trace) - Len(resp) + n] = resp[n]
        /\ TransportAt(i) \subseteq {Len(req) + 1}
        /\ i.chainEntries >= 1 =>
              (TransportAt(i) = {} <=> Len(i.trace) = 2 * Len(req))

C31_Witness ==
    \E i \in Invs :
        /\ i.chainEntries = 2
        /\ Len(middleware_stack) = 2
        /\ Len(RequestSide(i)) = 2
        /\ TransportAt(i) = {3}

\* The health statuses returned so far.
Reports == {i.health : i \in {x \in Invs : x.health.kind = "Ok"}}

\* C32: health_check reports healthy = true exactly if the http client,
\* each chain and the cache are healthy, and lists one issue for every
\* unhealthy component.
C32_HealthyIffAllComponents ==
    \A h \in Reports :
        LET unhealthy ==
              Cardinality({c \in Chains : ~h.components.chains[c]})
                + (IF h.components.http_client THEN 0 ELSE 1)
                + (IF h.components.cache THEN 0 ELSE 1)
        IN /\ h.healthy <=> unhealthy = 0
           /\ Cardinality(h.issues) = unhealthy

\* The step in which invocation i, a call of is_closed, config or
\* health_check, returns.
ReadOnlyCall(i) ==
    /\ i.pc = "idle"
    /\ \E j \in BagToSet(invocations') :
         /\ j.api \in ReadOnlyApis /\ j.pc = "done"
         /\ j.cacheInserts = 0 /\ j.records = 0
         /\ Step(i, j)

\* The calls of is_closed, config and health_check that have returned.
ReadOnlyCalls ==
    [i \in {x \in Invs : x.api \in ReadOnlyApis} |-> invocations[i]]

\* C33: is_closed, config and health_check are read-only: a call, whether
\* the client is open or closed, is a step that leaves the closed flag,
\* active_requests, the statistics and the reserved budget as they were and
\* that stores nothing in the cache and appends no payment record.
C33_ReadOnlyAccessors ==
    [][ (BagCardinality(ReadOnlyCalls') # BagCardinality(ReadOnlyCalls)) =>
            /\ \E i \in Invs : ReadOnlyCall(i)
            /\ UNCHANGED <<closed, active_requests, stats, auto_pay,
                           middleware_stack, budgetVars, closeVars, batch>>
      ]_vars

C33_Witness ==
    /\ closed
    /\ stats.total_requests = 1
    /\ \E i \in Invs : i.api = "is_closed" /\ i.flag

\* C34: only a GET probes the cache; a GET answered from the cache returns
\* the entry with a cache hit recorded and without entering the middleware
\* chain, the transport or the payment manager; a POST makes no probe, is
\* never answered from the cache, and a response it returns has come
\* through the middleware chain.
C34_CacheOnlyForGet ==
    \A i \in Invs :
        /\ i.cacheProbes <= 1
        /\ i.cacheProbes = 1 => i.api = "get"
        /\ i.hit # None =>
              /\ i.pc = "done" /\ i.api = "get" /\ i.cacheProbes = 1
              /\ i.result \in {Ok(c.response) : c \in cache_manager_get}
              /\ i.cacheHits = 1
              /\ i.chainEntries = 0 /\ i.transportCalls = 0
              /\ i.pmCalls = 0 /\ i.signed = 0
        /\ i.hit = None => i.cacheHits = 0
        /\ i.api = "post" =>
              /\ i.cacheProbes = 0 /\ i.hit = None
              /\ i.pc # "cache"
              /\ (i.pc = "done" /\ i.result.kind = "Ok") => i.chainEntries >= 1

C34_Witness ==
    /\ \E i \in Invs :
         /\ i.api = "get" /\ i.hit # None /\ i.result.kind = "Ok"
         /\ i.chainEntries = 0
    /\ \E i \in Invs :
         /\ i.api = "post" /\ i.pc = "done" /\ i.result.kind = "Ok"
         /\ i.result.response.payment_made /\ i.chainEntries = 2

\* C35: after n counted requests average_duration is the running average
\* avg_k = (avg_(k-1) * (k-1) + d_k) / k; it lies between the least and the
\* greatest duration and is below the exact mean by no more than the
\* accumulated rounding, and no update divides by zero.
C35_RunningAverage ==
    /\ [](/\ averaging.panics = 0
          /\ averaging.least <= averaging.average_duration
          /\ averaging.average_duration <= averaging.greatest
          /\ averaging.total_requests * averaging.average_duration
                <= averaging.sum
          /\ averaging.sum
                - averaging.total_requests * averaging.average_duration
                <= (averaging.total_requests
                      * (averaging.total_requests - 1)) \div 2)
    /\ [][ \A d \in 1..MaxDuration :
             UpdateAverage(d) =>
                 LET k == averaging'.total_requests IN
                 averaging'.average_duration =
                     IF k = 1 THEN d
                     ELSE (averaging.average_duration * (k - 1) + d) \div k
         ]_vars

\* C36: in every state a reader of the statistics can observe,
\* total_requests = successful_requests + failed_requests and
\* payments_made <= successful_requests; no counter ever decreases.
C36_StatsConsistent ==
    /\ [](/\ stats.total_requests
                = stats.successful_requests + stats.failed_requests
          /\ stats.payments_made <= stats.successful_requests)
    /\ [][ /\ stats'.total_requests >= stats.total_requests
           /\ stats'.successful_requests >= stats.successful_requests
           /\ stats'.failed_requests >= stats.failed_requests
           /\ stats'.payments_made >= stats.payments_made
           /\ stats'.total_amount_paid >= stats.total_amount_paid ]_vars

C36_Witness ==
    /\ stats.total_requests = 2
    /\ stats.successful_requests = 1
    /\ stats.failed_requests = 1
    /\ stats.payments_made = 1
    /\ stats.total_amount_paid = MaxAmountPerRequest

\* C37: batch_get terminates for every input: a batch that has spawned its
\* tasks returns, whatever max_concurrent is (0 and more than the number of
\* URLs included), provided every get completes or times out; for an empty
\* list it returns an empty result and spawns no task.
C37_BatchGetTerminates ==
    /\ (batch.pc = "join") ~> (batch.pc = "done")
    /\ []((batch.pc = "done" /\ batch.result = "Ok" /\ batch.results = <<>>)
            => Tasks = {})

\* The calls of the product log that stored a product of this id, and those
\* that removed the entry of this id.
Stored(id) ==
    {k \in 1..Len(services.product_log) :
        LET e == services.product_log[k] IN
        /\ e.ok /\ e.api /\ e.product.id = id
        /\ e.op \in {"create_product", "get_product", "update_product"}}
Removed(id) ==
    {k \in 1..Len(services.product_log) :
        LET e == services.product_log[k] IN
        \/ e.op = "clear_cache"
        \/ e.op = "delete_product" /\ e.ok /\ e.id = id}
Latest(S) == CHOOSE k \in S : \A j \in S : j <= k

\* What ProductService held for this id before its k-th call, by the claim.
Held(id, k) ==
    LET stored == {j \in Stored(id) : j < k}
        removed == {j \in Removed(id) : j < k}
    IN IF stored = {} \/ (\E j \in removed : j > Latest(stored))
         THEN None
         ELSE Some(services.product_log[Latest(stored)].product)

\* C38: the cache of ProductService holds for each id the product returned
\* by the latest successful create, get miss or update that returned a
\* product of that id, unless a successful delete of the id or a
\* clear_cache came after it (failed calls change nothing); a get_product
\* of a cached id returns the cached product without an API call.
C38_ProductCache ==
    /\ \A id \in ProductIds :
          services.cache[id] = Held(id, Len(services.product_log) + 1)
    /\ \A k \in 1..Len(services.product_log) :
          LET e == services.product_log[k] IN
          (e.op = "get_product" /\ Held(e.id, k) # None) =>
              /\ ~e.api /\ e.ok
              /\ e.product = Held(e.id, k)[1]

C38_Witness ==
    /\ Len(services.product_log) = 3
    /\ services.product_log[1].op = "create_product"
    /\ services.product_log[1].ok
    /\ services.product_log[2].op = "update_product"
    /\ services.product_log[2].ok
    /\ services.product_log[2].product.id = services.product_log[1].product.id
    /\ services.product_log[2].product # services.product_log[1].product
    /\ services.product_log[3].op = "get_product"
    /\ ~services.product_log[3].api
    /\ services.product_log[3].product = services.product_log[2].product

\* The successful API calls made for this key before the k-th call of the
\* access log and after the last clear_cache before it.
LastClear(k) ==
    LET clears == {j \in 1..(k - 1) : services.access_log[j].op = "clear_cache"}
    IN IF clears = {} THEN 0 ELSE Latest(clears)
Granted(key, k) ==
    {j \in (LastClear(k) + 1)..(k - 1) :
        LET e == services.access_log[j] IN
        /\ e.op = "check_access" /\ cache_key(e.request) = key
        /\ e.api /\ e.ok}
Earliest(S) == CHOOSE k \in S : \A j \in S : k <= j

\* C39: between two clear_cache calls AccessService makes at most one
\* successful API call for a key (product_id, user_address): every later
\* check_access of the key returns the response of that call, granted or
\* denied, without an API call, whatever the timestamp and the signature of
\* the request and the expires_at of the response; a failed API call caches
\* nothing.
C39_AccessCachedOnce ==
    /\ \A k \in 1..Len(services.access_log) :
          LET e == services.access_log[k]
              before == Granted(cache_key(e.request), k)
          IN (e.op = "check_access" /\ before # {}) =>
                 /\ Cardinality(before) = 1
                 /\ ~e.api /\ e.ok
                 /\ e.response = services.access_log[Earliest(before)].response
    /\ \A key \in AccessKeys :
          LET so_far == Granted(key, Len(services.access_log) + 1) IN
          services.access_cache[key] =
              IF so_far = {} THEN None
              ELSE Some(services.access_log[Earliest(so_far)].response)

C39_Witness ==
    /\ Len(services.access_log) = 3
    /\ services.access_log[1].api /\ ~services.access_log[1].ok
    /\ services.access_log[2].api /\ services.access_log[2].ok
    /\ ~services.access_log[2].response.has_access
    /\ services.access_log[2].response.expires_at = Some(1)
    /\ ~services.access_log[3].api
    /\ services.access_log[3].request.timestamp = 2
    /\ services.access_log[3].request.signature
          # services.access_log[2].request.signature
    /\ services.access_log[3].response = services.access_log[2].response
    /\ \A k \in 1..3 :
          cache_key(services.access_log[k].request) = <<"p1", "0xa">>

====
